---- MODULE Spec2Model ----
(***************************************************************************)
(* EG4 Chargeverter battery emulator (Modbus RTU slave), eg4_cv_emulator.py *)
(*                                                                         *)
(* Bytes are integers 0..255, byte strings are sequences of bytes, time is *)
(* in whole seconds (the unit of time.time()).  Optional values are        *)
(* records [some, val].                                                    *)
(***************************************************************************)
EXTENDS Integers, Sequences, FiniteSets, TLC

VARIABLES
    args,         \* parsed command line: slave, default_soc, quiet, gap_ms
    gap_s,        \* GapFramer.gap_s
    buf,          \* GapFramer.buf
    last_rx,      \* GapFramer.last_rx (Optional)
    base,         \* the register map
    last_soc,     \* last SOC printed (Optional)
    poll_ok,      \* frames with a good CRC since the last rate report
    poll_badcrc,  \* frames with a bad CRC since the last rate report
    last_rate_t,  \* time of the last rate report
    now,          \* time read at the head of the latest iteration / feed call
    soc,          \* live value read in the latest iteration
    chunk,        \* bytes read in the latest iteration / fed in the latest call
    pkt,          \* what feed returned in the latest iteration / call (Optional)
    ser_out,      \* frames written to the serial port in the latest iteration
    clock,        \* wall clock: the latest value time.time() returned
    soc_file,     \* content of the SOC file
    running,      \* FALSE once an uncaught exception has ended the loop
    fed,          \* call trace of the framer: all chunks fed so far, concatenated
    pending,      \* call trace of the framer: the chunks fed since the last frame
    frames,       \* call trace of the framer: the frames returned so far
    sent          \* call trace of the serial port: the responses written so far

vars == <<args, gap_s, buf, last_rx, base, last_soc, poll_ok, poll_badcrc,
          last_rate_t, now, soc, chunk, pkt, ser_out, clock, soc_file, running,
          fed, pending, frames, sent>>

----------------------------------------------------------------------------
(* Optional values *)

None == [some |-> FALSE, val |-> <<>>]
Some(x) == [some |-> TRUE, val |-> x]

----------------------------------------------------------------------------
(* Python's integer operators on non-negative operands, and on a negative   *)
(* left operand for & and >> (two's complement of unbounded width).         *)

RECURSIVE XorNat(_, _)
XorNat(a, b) ==
    IF a = 0 THEN b
    ELSE IF b = 0 THEN a
    ELSE (((a % 2) + (b % 2)) % 2) + 2 * XorNat(a \div 2, b \div 2)

RECURSIVE OrNat(_, _)
OrNat(a, b) ==
    IF a = 0 THEN b
    ELSE IF b = 0 THEN a
    ELSE (IF a % 2 = 1 \/ b % 2 = 1 THEN 1 ELSE 0) + 2 * OrNat(a \div 2, b \div 2)

RECURSIVE AndMask(_, _)
\* a & m for a mask m >= 0; a % 2 and a \div 2 are the low bit and the
\* arithmetic shift of a two's complement integer, negative or not.
AndMask(a, m) ==
    IF m = 0 THEN 0
    ELSE (IF a % 2 = 1 /\ m % 2 = 1 THEN 1 ELSE 0) + 2 * AndMask(a \div 2, m \div 2)

RECURSIVE Pow2(_)
Pow2(n) == IF n = 0 THEN 1 ELSE 2 * Pow2(n - 1)

ShiftR(a, n) == a \div Pow2(n)
ShiftL(a, n) == a * Pow2(n)

----------------------------------------------------------------------------
(* crc16_modbus *)

RECURSIVE CrcShift(_, _)
\* the inner loop: n more rounds of "shift right, XOR 0xA001 if the low bit was set"
CrcShift(crc, n) ==
    IF n = 0 THEN crc
    ELSE IF AndMask(crc, 1) # 0
         THEN CrcShift(XorNat(ShiftR(crc, 1), 40961), n - 1)
         ELSE CrcShift(ShiftR(crc, 1), n - 1)

RECURSIVE CrcFold_SevenBits(_, _, _)
\* the top bit of each byte left out of the register
CrcFold_SevenBits(data, i, crc) ==
    IF i > Len(data) \/ crc < 0 THEN crc
    ELSE CrcFold_SevenBits(data, i + 1, CrcShift(XorNat(crc, data[i] % 128), 8))

RECURSIVE CrcFold(_, _, _)
\* the outer loop over data[i..]
\* (crc is never negative: testing it computes the register before the next
\* byte is folded in, as the loop does, instead of at the very end)
CrcFold(data, i, crc) ==
    IF i > Len(data) \/ crc < 0 THEN crc
    ELSE CrcFold(data, i + 1, CrcShift(XorNat(crc, data[i]), 8))

\* the register seeded with zero
crc16_modbus_ZeroSeed(data) == AndMask(CrcFold(data, 1, 0), 65535)

crc16_modbus(data) == AndMask(CrcFold(data, 1, 65535), 65535)

----------------------------------------------------------------------------
(* regs_to_bytes *)

RECURSIVE regs_to_bytes_Unmasked(_)
\* the two bytes of a register taken without & 0xFF
regs_to_bytes_Unmasked(regs) ==
    IF regs = <<>> THEN <<>>
    ELSE <<ShiftR(Head(regs), 8), Head(regs) - 256 * ShiftR(Head(regs), 8)>>
         \o regs_to_bytes_Unmasked(Tail(regs))

RECURSIVE regs_to_bytes(_)
regs_to_bytes(regs) ==
    IF regs = <<>> THEN <<>>
    ELSE <<AndMask(ShiftR(Head(regs), 8), 255), AndMask(Head(regs), 255)>>
         \o regs_to_bytes(Tail(regs))

----------------------------------------------------------------------------
(* GapFramer *)

\* feed without the test of the gap: a frame as soon as a read comes back empty.
feed_IgnoringGap(b, lrx, gap, c, t) ==
    IF c # <<>>
    THEN [buf |-> b \o c, last_rx |-> Some(t), ret |-> None]
    ELSE IF b # <<>> /\ lrx.some
         THEN [buf |-> <<>>, last_rx |-> lrx, ret |-> Some(b)]
         ELSE [buf |-> b, last_rx |-> lrx, ret |-> None]

\* feed without buf.clear(): the frame is returned and stays buffered.
feed_KeepingBuffer(b, lrx, gap, c, t) ==
    IF c # <<>>
    THEN [buf |-> b \o c, last_rx |-> Some(t), ret |-> None]
    ELSE IF b # <<>> /\ lrx.some /\ (t - lrx.val) >= gap
         THEN [buf |-> b, last_rx |-> lrx, ret |-> Some(b)]
         ELSE [buf |-> b, last_rx |-> lrx, ret |-> None]

\* feed taking every call, idle or not, as a reception
feed_ResettingTimer(b, lrx, gap, c, t) ==
    IF c # <<>>
    THEN [buf |-> b \o c, last_rx |-> Some(t), ret |-> None]
    ELSE IF b # <<>> /\ lrx.some /\ (t - lrx.val) >= gap
         THEN [buf |-> <<>>, last_rx |-> lrx, ret |-> Some(b)]
         ELSE [buf |-> b, last_rx |-> Some(t), ret |-> None]

\* feed returning the buffered bytes when data arrives after the gap
feed_EmittingOnData(b, lrx, gap, c, t) ==
    IF c # <<>>
    THEN IF b # <<>> /\ lrx.some /\ (t - lrx.val) >= gap
         THEN [buf |-> c, last_rx |-> Some(t), ret |-> Some(b)]
         ELSE [buf |-> b \o c, last_rx |-> Some(t), ret |-> None]
    ELSE IF b # <<>> /\ lrx.some /\ (t - lrx.val) >= gap
         THEN [buf |-> <<>>, last_rx |-> lrx, ret |-> Some(b)]
         ELSE [buf |-> b, last_rx |-> lrx, ret |-> None]

\* GapFramer.feed as a function of the framer's fields and the arguments:
\* the new buf, the new last_rx and the returned value.
feed(b, lrx, gap, c, t) ==
    IF c # <<>>
    THEN [buf |-> b \o c, last_rx |-> Some(t), ret |-> None]
    ELSE IF b # <<>> /\ lrx.some /\ (t - lrx.val) >= gap
         THEN [buf |-> <<>>, last_rx |-> lrx, ret |-> Some(b)]
         ELSE [buf |-> b, last_rx |-> lrx, ret |-> None]

----------------------------------------------------------------------------
(* load_soc *)

Min(a, b) == IF a < b THEN a ELSE b
Max(a, b) == IF a > b THEN a ELSE b

\* int(float(raw)) for a decimal with one fractional digit, given in tenths:
\* int() truncates toward zero.
IntOfFloat(tenths) ==
    IF tenths >= 0 THEN tenths \div 10 ELSE -((-tenths) \div 10)

\* The SOC file: absent (open raises), not a number (float raises), or a number.
SocFiles ==
    {[kind |-> "missing", tenths |-> 0], [kind |-> "garbage", tenths |-> 0]}
    \cup {[kind |-> "number", tenths |-> t] : t \in {-55, 530, 915, 1509}}

load_soc(file, default) ==
    IF file.kind = "number"
    THEN Max(0, Min(100, IntOfFloat(file.tenths)))
    ELSE default

----------------------------------------------------------------------------
(* main: the frame handling branch *)

IsBytes(s) == \A i \in 1..Len(s) : s[i] \in 0..255

\* resp + bytes([c & 0xFF, (c >> 8) & 0xFF]) with c = crc16_modbus(resp)
\* the CRC appended high byte first
CrcBytes_HighFirst(c) == <<AndMask(ShiftR(c, 8), 255), AndMask(c, 255)>>

CrcBytes(c) == <<AndMask(c, 255), AndMask(ShiftR(c, 8), 255)>>
WithCrc(resp) == resp \o CrcBytes(crc16_modbus(resp))

\* base[lo:hi], a Python slice with 0 <= lo
Slice(b, lo, hi) == SubSeq(b, Min(lo, Len(b)) + 1, Min(hi, Len(b)))

\* the live value patched into 0x0015 alone
PatchedRegs_OneMirror(b, start, count, s) ==
    LET regs == Slice(b, start, start + count)
    IN  IF start <= 21 /\ 21 < start + count
        THEN [regs EXCEPT ![21 - start + 1] = s] ELSE regs

\* The per-response copy with the live value patched into 0x0015 and 0x0018.
PatchedRegs(b, start, count, s) ==
    LET regs == Slice(b, start, start + count)
        r1 == IF start <= 21 /\ 21 < start + count
              THEN [regs EXCEPT ![21 - start + 1] = s] ELSE regs
        r2 == IF start <= 24 /\ 24 < start + count
              THEN [r1 EXCEPT ![24 - start + 1] = s] ELSE r1
    IN  r2

\* The register map had the patch been made on base itself.
BaseAfterRead_InPlace(b, start, count, s) ==
    [i \in 1..Len(b) |->
        IF (i - 1) \in {21, 24} /\ start <= i - 1 /\ i - 1 < start + count
        THEN s ELSE b[i]]

\* The register map after a read: regs is a copy of the slice, so the patch
\* leaves base as it was.
BaseAfterRead(b, start, count, s) == b

\* What the branch does with a completed frame p: the frames it writes, the
\* counter increments, the register map it leaves, whether it ends in
\* "continue" (skipping the rate report), and whether bytes() raised.
Outcome(w, ok, bad, b, cont) ==
    [writes |-> IF \A i \in 1..Len(w) : IsBytes(w[i]) THEN w ELSE <<>>,
     ok |-> ok, badcrc |-> bad, base |-> b, cont |-> cont,
     crash |-> ~(\A i \in 1..Len(w) : IsBytes(w[i]))]

\* the length test off by one
IsShort_OffByOne(p) == Len(p) <= 8

\* len(pkt) < 8
IsShort(p) == Len(p) < 8

\* want = pkt[-2] | (pkt[-1] << 8); got = crc16_modbus(pkt[:-2]); got == want
CrcOk(p) ==
    crc16_modbus(SubSeq(p, 1, Len(p) - 2))
        = OrNat(p[Len(p) - 1], ShiftL(p[Len(p)], 8))

\* no slave filter
ForThisSlave_Any(sid, a) == TRUE

\* sid == (args.slave & 0xFF)
ForThisSlave(sid, a) == sid = AndMask(a.slave, 255)

\* start = (pkt[2] << 8) | pkt[3]; count = (pkt[4] << 8) | pkt[5]
DecodeStart(p) == OrNat(ShiftL(p[3], 8), p[4])
DecodeCount(p) == OrNat(ShiftL(p[5], 8), p[6])

\* the range test with >= for >
InRange_Exclusive(start, count, b) == ~(start + count >= Len(b))

\* not (start + count > len(base))
InRange(start, count, b) == ~(start + count > Len(b))

\* func + 0x80 for func | 0x80
IllegalFunctionResponse_Adding(sid, func) == WithCrc(<<sid, func + 128, 1>>)

IllegalFunctionResponse(sid, func) == WithCrc(<<sid, OrNat(func, 128), 1>>)

IllegalAddressResponse(sid) == WithCrc(<<sid, 131, 2>>)

ReadFrame(sid, payload) == WithCrc(<<sid, 3, Len(payload)>> \o payload)
ReadResponse(sid, regs) == ReadFrame(sid, regs_to_bytes(regs))

\* short frames counted with the CRC failures
HandleFrame_CountingShort(p, s, a, b) ==
    IF IsShort(p) THEN Outcome(<<>>, 0, 1, b, TRUE)
    ELSE IF ~CrcOk(p) THEN Outcome(<<>>, 0, 1, b, TRUE)
    ELSE IF ~ForThisSlave(p[1], a) THEN Outcome(<<>>, 1, 0, b, TRUE)
    ELSE IF p[2] # 3
         THEN Outcome(<<IllegalFunctionResponse(p[1], p[2])>>, 1, 0, b, TRUE)
    ELSE IF ~InRange(DecodeStart(p), DecodeCount(p), b)
         THEN Outcome(<<IllegalAddressResponse(p[1])>>, 1, 0, b, TRUE)
    ELSE Outcome(<<ReadResponse(p[1], PatchedRegs(b, DecodeStart(p), DecodeCount(p), s))>>,
                 1, 0, BaseAfterRead(b, DecodeStart(p), DecodeCount(p), s), FALSE)

HandleFrame(p, s, a, b) ==
    IF IsShort(p) THEN Outcome(<<>>, 0, 0, b, TRUE)
    ELSE IF ~CrcOk(p) THEN Outcome(<<>>, 0, 1, b, TRUE)
    ELSE IF ~ForThisSlave(p[1], a) THEN Outcome(<<>>, 1, 0, b, TRUE)
    ELSE IF p[2] # 3
         THEN Outcome(<<IllegalFunctionResponse(p[1], p[2])>>, 1, 0, b, TRUE)
    ELSE IF ~InRange(DecodeStart(p), DecodeCount(p), b)
         THEN Outcome(<<IllegalAddressResponse(p[1])>>, 1, 0, b, TRUE)
    ELSE Outcome(<<ReadResponse(p[1], PatchedRegs(b, DecodeStart(p), DecodeCount(p), s))>>,
                 1, 0, BaseAfterRead(b, DecodeStart(p), DecodeCount(p), s), FALSE)

----------------------------------------------------------------------------
(* Configurations and initial state *)

Slaves == {1, 2, 257}
DefaultSocs == {53, -1}
GapMsChoices == {3000}

Configs ==
    [slave : Slaves, default_soc : DefaultSocs, quiet : BOOLEAN, gap_ms : GapMsChoices]

\* base = [0] * 0x27 with the seeded cells
InitialBase(a) ==
    [i \in 1..39 |->
        CASE i - 1 = 19 -> 23
          [] i - 1 = 20 -> 24
          [] i - 1 = 21 -> a.default_soc
          [] i - 1 = 22 -> 50
          [] i - 1 = 23 -> 100
          [] i - 1 = 24 -> a.default_soc
          [] OTHER -> 0]

\* The state when the loop is entered, for command line a and SOC file f.
InitWith(a, f) ==
    /\ args = a
    /\ gap_s = a.gap_ms \div 1000
    /\ buf = <<>>
    /\ last_rx = None
    /\ base = InitialBase(a)
    /\ last_soc = None
    /\ poll_ok = 0
    /\ poll_badcrc = 0
    /\ clock = 0
    /\ last_rate_t = 0
    /\ now = 0
    /\ soc = 0
    /\ chunk = <<>>
    /\ pkt = None
    /\ ser_out = <<>>
    /\ soc_file = f
    /\ running = TRUE
    /\ fed = <<>>
    /\ pending = <<>>
    /\ frames = <<>>
    /\ sent = <<>>

Init == \E a \in Configs, f \in SocFiles : InitWith(a, f)

----------------------------------------------------------------------------
(* Bounds and inputs *)

MaxClock == 6
MaxBuf == 9
MaxFed == 4
MaxNow == 4

\* A frame as the master sends it: the body and its CRC, low byte first.
CrcPair(c) == <<c % 256, c \div 256>>
OnWire(body) == body \o CrcPair(crc16_modbus(body))

\* A read-style request: slave, function, start and count big-endian, CRC.
Request(sid, func, start, count) ==
    OnWire(<<sid, func, start \div 256, start % 256, count \div 256, count % 256>>)

\* The same frame with its CRC low byte damaged on the wire.
Damaged(p) == [p EXCEPT ![Len(p) - 1] = (p[Len(p) - 1] + 1) % 256]

Poll == Request(1, 3, 19, 17)

Chunks ==
    { <<>>,
      Poll,
      SubSeq(Poll, 1, 4),
      SubSeq(Poll, 5, 8),
      Damaged(Poll),
      Request(1, 3, 38, 2),
      Request(1, 4, 0, 1),
      Request(2, 3, 21, 1),
      OnWire(<<1, 7>>) }

Deltas == {0, 3}
ReportLag == {0}

----------------------------------------------------------------------------
(* GapFramer.feed called on its own *)

FramerBytes == {1, 3}
FramerChunks ==
    {<<>>} \cup {<<x>> : x \in FramerBytes} \cup {<<x, y>> : x, y \in FramerBytes}

FeedCall(c, t) ==
    /\ Len(fed) + Len(c) <= MaxFed
    /\ LET r == feed(buf, last_rx, gap_s, c, t)
       IN  /\ buf' = r.buf
           /\ last_rx' = r.last_rx
           /\ pkt' = r.ret
           /\ frames' = IF r.ret.some THEN Append(frames, r.ret.val) ELSE frames
           /\ pending' = IF r.ret.some THEN <<>> ELSE pending \o c
    /\ chunk' = c
    /\ now' = t
    /\ fed' = fed \o c
    /\ UNCHANGED <<gap_s, args, base, last_soc, poll_ok, poll_badcrc, last_rate_t,
                   soc, ser_out, clock, soc_file, running, sent>>

NextFramer == \E c \in FramerChunks, t \in 0..MaxNow : FeedCall(c, t)

\* A framer constructed with each gap, the rest of the program at rest.
FramerGapMs == {0, 2000, 3000}
InitFramer ==
    \E g \in FramerGapMs :
        InitWith([slave |-> 1, default_soc |-> 53, quiet |-> FALSE, gap_ms |-> g],
                 [kind |-> "missing", tenths |-> 0])

SpecFramer == InitFramer /\ [][NextFramer]_vars

----------------------------------------------------------------------------
(* main: one iteration of the driving loop *)

\* the value of the previous iteration kept while there is one
UpdateSoc_Cached(file, default, prev) ==
    IF prev.some THEN prev.val ELSE load_soc(file, default)

\* soc = load_soc(args.soc_file, args.default_soc), at the head of every iteration
UpdateSoc(file, default, prev) == load_soc(file, default)

\* the report made whether or not --quiet was given
ReportDue_IgnoringQuiet(quiet, t, last) == (t - last) > 5

\* not args.quiet and (time.time() - last_rate_t) > 5.0
ReportDue(quiet, t, last) == ~quiet /\ (t - last) > 5

\* One pass of the loop body on the program's own state: the serial read
\* returns c, d seconds after the latest clock reading, and the clock is read
\* again e seconds later for the rate report.
Iterate(c, d, e) ==
    /\ running
    /\ clock + d <= MaxClock
    /\ Len(buf) + Len(c) <= MaxBuf
    /\ now' = clock + d
    /\ soc' = UpdateSoc(soc_file, args.default_soc, last_soc)
    /\ last_soc' = Some(soc')
    /\ chunk' = c
    /\ \E r \in {feed(buf, last_rx, gap_s, c, now')} :
       \E h \in {IF r.ret.some
                  THEN HandleFrame(r.ret.val, soc', args, base)
                  ELSE Outcome(<<>>, 0, 0, base, FALSE)} :
       LET t2 == now' + e
           report == ~h.cont /\ ~h.crash /\ ReportDue(args.quiet, t2, last_rate_t)
       IN  /\ buf' = r.buf
           /\ last_rx' = r.last_rx
           /\ pkt' = r.ret
           /\ ser_out' = h.writes
           /\ base' = h.base
           /\ running' = ~h.crash
           /\ poll_ok' = IF report THEN 0 ELSE poll_ok + h.ok
           /\ poll_badcrc' = IF report THEN 0 ELSE poll_badcrc + h.badcrc
           /\ last_rate_t' = IF report THEN t2 ELSE last_rate_t
           /\ clock' = IF h.cont \/ h.crash \/ args.quiet THEN now' ELSE t2
    /\ UNCHANGED <<args, gap_s, soc_file>>

LoopIteration(c, d, e) ==
    /\ Iterate(c, d, e)
    /\ UNCHANGED <<fed, pending, frames, sent>>

\* The SOC file is rewritten from another shell.
SetSocFile(f) ==
    /\ f # soc_file
    /\ soc_file' = f
    /\ UNCHANGED <<args, gap_s, buf, last_rx, base, last_soc, poll_ok, poll_badcrc,
                   last_rate_t, now, soc, chunk, pkt, ser_out, clock, running,
                   fed, pending, frames, sent>>

Next ==
    \/ \E c \in Chunks, d \in Deltas, e \in ReportLag : LoopIteration(c, d, e)
    \/ \E f \in SocFiles : SetSocFile(f)

Spec == Init /\ [][Next]_vars

----------------------------------------------------------------------------
(* The frame handling branch over a wide range of frames: the loop reads   *)
(* one chunk, then finds the line silent for the length of the gap.        *)

FuncSweep == {Request(1, f, 19, 17) : f \in 0..255}

StartChoices == {0, 19, 21, 24, 38, 39, 256}
CountChoices == {0, 1, 2, 17, 18, 20, 39, 40, 256}
ReadSweep ==
    {Request(s, 3, st, n) : s \in {1, 2}, st \in StartChoices, n \in CountChoices}

OddFrames ==
    { Damaged(Poll),
      Damaged(Request(2, 3, 19, 17)),
      Damaged(Request(1, 4, 0, 1)),
      SubSeq(Poll, 1, 7),
      OnWire(<<1, 7>>),
      OnWire(<<1, 3>>),
      OnWire(<<1, 3, 0, 19, 0>>),
      OnWire(<<1, 3, 0, 19, 0, 17, 0>>),
      OnWire(<<1, 16, 0, 21, 0, 1, 2>>) }

HandlerChunks == {<<>>} \cup FuncSweep \cup ReadSweep \cup OddFrames
HandlerDeltas == {3}

NextHandler ==
    \E c \in HandlerChunks, d \in HandlerDeltas, e \in ReportLag : LoopIteration(c, d, e)

\* The SOC file absent, below the range, or in it.
HandlerSocFiles == {f \in SocFiles : f.kind = "missing" \/ f.tenths \in {-55, 915}}
InitHandler == \E a \in Configs, f \in HandlerSocFiles : InitWith(a, f)

SpecHandler == InitHandler /\ [][NextHandler]_vars

----------------------------------------------------------------------------
(* Captured valid frames replayed with one bit of the body flipped on the  *)
(* wire, the two trailer bytes as captured.                                *)

\* p with bit b of its i-th byte inverted
Flip(p, i, b) == [p EXCEPT ![i] = XorNat(p[i], Pow2(b))]

Captured ==
    { Poll,
      Request(1, 4, 0, 1),
      OnWire(<<1, 3, 0, 19, 0, 17, 0>>) }

Tampered ==
    UNION {{Flip(p, i, b) : i \in 1..(Len(p) - 2), b \in 0..7} : p \in Captured}

TamperChunks == {<<>>} \cup Captured \cup Tampered

NextTamper ==
    \E c \in TamperChunks, d \in HandlerDeltas, e \in ReportLag : LoopIteration(c, d, e)

SpecTamper == InitHandler /\ [][NextTamper]_vars

----------------------------------------------------------------------------
(* The framer as the loop drives it: the serial port is non-blocking, so    *)
(* the loop keeps calling feed, with an empty chunk while the line is       *)
(* silent, and the time it passes never goes back.                          *)

MaxLiveNow == 7

\* Bytes arrive at time t; the line may fall silent for the gap afterwards.
DataArrives(c, t) ==
    /\ c # <<>>
    /\ now <= t
    /\ t + Max(gap_s, 1) <= MaxLiveNow
    /\ FeedCall(c, t)

\* A pass of the loop one second later that reads nothing.
IdleTick ==
    /\ now + 1 <= MaxLiveNow
    /\ FeedCall(<<>>, now + 1)

NextFramerLive ==
    \/ \E c \in FramerChunks, t \in 0..MaxLiveNow : DataArrives(c, t)
    \/ IdleTick

SpecFramerLive == InitFramer /\ [][NextFramerLive]_vars /\ WF_vars(IdleTick)

----------------------------------------------------------------------------
(* A polling session with its responses recorded: the master repeats its   *)
(* requests while the SOC file is rewritten between readable values.       *)

SessionChunks ==
    {<<>>, Poll, Request(1, 3, 21, 1), Damaged(Poll), SubSeq(Poll, 1, 4), SubSeq(Poll, 5, 8)}
SessionSocFiles == {f \in SocFiles : f.kind = "number" /\ f.tenths \in {530, 915}}

\* The loop body, each returned frame and each write to the serial port
\* noted with the request and the live value of its iteration.
RecordedIteration(c, d, e) ==
    /\ Iterate(c, d, e)
    /\ frames' = IF pkt'.some THEN Append(frames, pkt'.val) ELSE frames
    /\ sent' = sent \o [i \in 1..Len(ser_out') |->
                           [req |-> pkt'.val, soc |-> soc', resp |-> ser_out'[i]]]
    /\ UNCHANGED <<fed, pending>>

NextSession ==
    \/ \E c \in SessionChunks, d \in Deltas, e \in ReportLag : RecordedIteration(c, d, e)
    \/ \E f \in SessionSocFiles : SetSocFile(f)

InitSession == \E a \in Configs : InitWith(a, [kind |-> "number", tenths |-> 530])

SpecSession == InitSession /\ [][NextSession]_vars

----------------------------------------------------------------------------
(* Properties *)

RECURSIVE Flatten(_)
Flatten(ss) == IF ss = <<>> THEN <<>> ELSE Head(ss) \o Flatten(Tail(ss))

\* The latest iteration completed a frame: pkt, soc and ser_out belong to it.
Completed == pkt.some
Frame == pkt.val

\* The two trailing bytes of p are the CRC of the bytes before them, low byte first.
CrcTrailerOf(p) ==
    /\ Len(p) >= 2
    /\ <<p[Len(p) - 1], p[Len(p)]>> = CrcPair(crc16_modbus(SubSeq(p, 1, Len(p) - 2)))

SlaveByteMatches == Frame[1] = args.slave % 256
ReqStart == Frame[3] * 256 + Frame[4]
ReqCount == Frame[5] * 256 + Frame[6]
HighBitSet(f) == IF f >= 128 THEN f ELSE f + 128

\* A frame of at least 8 bytes with a good CRC for this slave.
Addressed == Completed /\ Len(Frame) >= 8 /\ CrcTrailerOf(Frame) /\ SlaveByteMatches
ValidRead == Addressed /\ Frame[2] = 3

\* r is body followed by the CRC of body
IsFramed(r, body) == r = body \o CrcPair(crc16_modbus(body))

\* The registers a response payload carries, decoded big-endian.
Decoded(r) == [i \in 1..((Len(r) - 5) \div 2) |-> r[2 * i + 2] * 256 + r[2 * i + 3]]

\* C1: feed returns a frame only on a call with an empty chunk, made while
\* the buffer is non-empty and now - last_rx >= gap_s; a call with a
\* non-empty chunk never returns a frame.
C1_FrameOnlyAfterGap ==
    [][pkt'.some =>
         /\ chunk' = <<>>
         /\ buf # <<>>
         /\ last_rx.some
         /\ now' - last_rx.val >= gap_s]_vars

\* a frame came out of a call with an empty chunk, a positive gap having passed
C1_Witness == pkt.some /\ chunk = <<>> /\ gap_s > 0 /\ Len(pkt.val) >= 2

\* C2: the frames returned so far followed by the buffer are the chunks fed
\* so far, in order; a returned frame is the concatenation of the chunks fed
\* since the previous frame, and the buffer is empty right after it.
C2_NoByteLost ==
    [][/\ Flatten(frames') \o buf' = fed'
       /\ pkt'.some => (pkt'.val = pending /\ buf' = <<>>)]_vars

\* a frame made of more than one chunk was returned and new bytes are buffered
C2_Witness == Len(frames) >= 1 /\ Len(frames[1]) >= 3 /\ buf # <<>>

\* C3: every frame written to the serial port ends with the CRC of the
\* bytes before it, low byte first and high byte second.
C3_ResponsesCarryCrc ==
    \A i \in 1..Len(ser_out) : Len(ser_out[i]) >= 3 /\ CrcTrailerOf(ser_out[i])

\* a read response with registers in it was written
C3_Witness ==
    /\ Completed /\ Len(ser_out) = 1
    /\ ser_out[1][2] = 3
    /\ Len(ser_out[1]) > 5

\* C4 as claimed: nothing is written for a frame whose trailer is not the
\* CRC of its body, nor for one whose byte 0 differs from the configured
\* slave identifier.
C4_Claimed ==
    (Completed /\ (~CrcTrailerOf(Frame) \/ Frame[1] # args.slave))
        => ser_out = <<>>

\* C4 amended: nothing is written for a frame whose trailer is not the CRC
\* of its body, nor for one whose byte 0 differs from the low eight bits of
\* the configured slave identifier.
C4_NoResponseToBadOrForeign ==
    (Completed /\ (~CrcTrailerOf(Frame) \/ ~SlaveByteMatches))
        => ser_out = <<>>

\* a well-formed request for another slave was dropped
C4_Witness ==
    /\ Completed /\ Len(Frame) >= 8 /\ CrcTrailerOf(Frame)
    /\ ~SlaveByteMatches
    /\ ser_out = <<>>

\* C5 as claimed: every completed frame with a good CRC for this slave is
\* answered with exactly one frame.
C5_Claimed ==
    (Completed /\ CrcTrailerOf(Frame) /\ SlaveByteMatches) => Len(ser_out) = 1

\* C5 amended: every completed frame of at least 8 bytes with a good CRC for
\* this slave is answered with exactly one frame, and no frame is answered
\* with more than one.
C5_OneResponse ==
    /\ Addressed => Len(ser_out) = 1
    /\ Len(ser_out) <= 1

\* an 8-byte request for this slave was answered
C5_Witness == Addressed /\ Len(Frame) = 8 /\ Len(ser_out) = 1

\* C6 as claimed: a valid read inside the register map is answered with
\* [slave, 3, 2*count] + payload + CRC, and the payload decodes to the stored
\* values, the live value standing at 0x0015 and 0x0018.
C6_Claimed ==
    (ValidRead /\ ReqStart + ReqCount <= Len(base)) =>
        /\ Len(ser_out) = 1
        /\ Len(ser_out[1]) = 2 * ReqCount + 5
        /\ SubSeq(ser_out[1], 1, 3) = <<Frame[1], 3, 2 * ReqCount>>
        /\ CrcTrailerOf(ser_out[1])
        /\ \A i \in 1..ReqCount :
              Decoded(ser_out[1])[i] =
                  IF ReqStart + i - 1 \in {21, 24} THEN soc
                  ELSE base[ReqStart + i]

\* C7: a valid read is answered normally when start + count <= the length
\* of the register map, start and count being the big-endian values of bytes
\* 2-3 and 4-5, and with [slave, 0x83, 0x02] + CRC exactly when
\* start + count is greater.
C7_RangeCheck ==
    ValidRead =>
        /\ Len(ser_out) = 1
        /\ ReqStart + ReqCount <= Len(base) =>
              /\ SubSeq(ser_out[1], 1, 3) = <<Frame[1], 3, 2 * ReqCount>>
              /\ Len(ser_out[1]) = 2 * ReqCount + 5
        /\ ReqStart + ReqCount > Len(base) =>
              IsFramed(ser_out[1], <<Frame[1], 131, 2>>)

\* a read ending one register past the map was refused
C7_Witness ==
    /\ ValidRead
    /\ ReqStart + ReqCount = Len(base) + 1
    /\ Len(ser_out) = 1 /\ ser_out[1][2] = 131

\* C8 as claimed: a frame with a good CRC for this slave and a function
\* byte other than 3 is answered with [slave, function | 0x80, 0x01] + CRC.
C8_Claimed ==
    (Completed /\ CrcTrailerOf(Frame) /\ Len(Frame) >= 4
        /\ SlaveByteMatches /\ Frame[2] # 3)
    => /\ Len(ser_out) = 1
       /\ IsFramed(ser_out[1], <<Frame[1], HighBitSet(Frame[2]), 1>>)

\* C8 amended: a frame of at least 8 bytes with a good CRC for this slave
\* and a function byte other than 3 is answered with
\* [slave, function | 0x80, 0x01] + CRC.
C8_IllegalFunction ==
    (Addressed /\ Frame[2] # 3)
    => /\ Len(ser_out) = 1
       /\ IsFramed(ser_out[1], <<Frame[1], HighBitSet(Frame[2]), 1>>)

\* a function byte with its high bit already set was refused
C8_Witness ==
    /\ Addressed /\ Frame[2] = 255
    /\ Len(ser_out) = 1 /\ ser_out[1][2] = 255 /\ ser_out[1][3] = 1

\* C9: the register map keeps its 39 cells and their startup values.
C9_BaseUnchanged == Len(base) = 39 /\ base = InitialBase(args)

\* a read over both mirror cells was answered with a live value that is not
\* the stored one
C9_Witness ==
    /\ ValidRead /\ ReqStart <= 21 /\ 24 < ReqStart + ReqCount
    /\ Len(ser_out) = 1 /\ ser_out[1][2] = 3
    /\ soc # args.default_soc

\* C10 as claimed: the live value read in an iteration is in 0..100.
C10_Claimed == last_soc.some => soc \in 0..100


\* C11: the loop body is total: whatever frame was completed and whatever
\* the SOC file holds, the iteration ends with the loop still running.
C11_LoopTotal == running

\* a truncated frame was handled while the SOC file could not be used and
\* the default is out of range
C11_Witness ==
    /\ Completed /\ Len(Frame) < 8
    /\ soc_file.kind = "garbage"
    /\ soc = args.default_soc /\ soc < 0
    /\ running


\* The reference Modbus CRC-16 on a register of sixteen bits, lowest first.
RefSeed == [i \in 1..16 |-> 1]
RefPoly == <<1, 0, 0, 0, 0, 0, 0, 0, 0, 0, 0, 0, 0, 1, 0, 1>>

RECURSIVE RefBits(_, _)
RefBits(x, n) == IF n = 0 THEN <<>> ELSE <<x % 2>> \o RefBits(x \div 2, n - 1)

RECURSIVE RefXor(_, _)
RefXor(a, b) ==
    IF a = <<>> THEN <<>>
    ELSE <<(Head(a) + Head(b)) % 2>> \o RefXor(Tail(a), Tail(b))

RECURSIVE RefValue(_)
RefValue(bits) == IF bits = <<>> THEN 0 ELSE Head(bits) + 2 * RefValue(Tail(bits))

RECURSIVE RefRounds(_, _)
RefRounds(reg, n) ==
    IF n = 0 \/ reg = <<>> THEN reg
    ELSE IF Head(reg) = 1
         THEN RefRounds(RefXor(Tail(reg) \o <<0>>, RefPoly), n - 1)
         ELSE RefRounds(Tail(reg) \o <<0>>, n - 1)

RECURSIVE RefFold(_, _, _)
RefFold(data, i, reg) ==
    IF i > Len(data) \/ reg = <<>> THEN reg
    ELSE RefFold(data, i + 1, RefRounds(RefXor(reg, RefBits(data[i], 16)), 8))

RefCrc(data) == RefValue(RefFold(data, 1, RefSeed))

PollBody == <<1, 3, 0, 19, 0, 17>>
PollFrame == <<1, 3, 0, 19, 0, 17, 116, 3>>

\* C12: crc16_modbus is the reference Modbus CRC-16 with a result in
\* 0..0xFFFF; over 01 03 00 13 00 11 it is 0x0374, sent as 74 03, and the
\* frame 01 03 00 13 00 11 74 03 passes the handler's CRC check.
C12_CrcReference ==
    /\ crc16_modbus(PollBody) = 884
    /\ CrcBytes(crc16_modbus(PollBody)) = <<116, 3>>
    /\ ~IsShort(PollFrame) /\ CrcOk(PollFrame)
    /\ Completed /\ IsBytes(Frame) =>
         /\ crc16_modbus(Frame) \in 0..65535
         /\ crc16_modbus(Frame) = RefCrc(Frame)
    /\ Completed /\ Frame = PollFrame =>
         /\ poll_badcrc = 0
         /\ SlaveByteMatches => Len(ser_out) = 1 /\ ser_out[1][2] = 3
         /\ ~SlaveByteMatches => poll_ok = 1

\* the documented poll frame was completed and answered with a read response
C12_Witness ==
    /\ Completed /\ Frame = PollFrame
    /\ Len(ser_out) = 1 /\ ser_out[1][2] = 3
    /\ crc16_modbus(SubSeq(Frame, 1, 6)) = 884


\* Frame is one bit of the body away from a frame whose trailer is the CRC
\* of its body.
OneBitFromValid ==
    /\ Completed /\ Len(Frame) >= 8
    /\ \E i \in 1..(Len(Frame) - 2), b \in 0..7 : CrcTrailerOf(Flip(Frame, i, b))

\* C13: a frame of at least 8 bytes that is a valid frame with one bit of
\* its body flipped and the trailer kept fails the CRC comparison: it is
\* dropped and nothing is written.
C13_SingleBitTamper ==
    OneBitFromValid =>
        /\ ~CrcOk(Frame)
        /\ ser_out = <<>>
        /\ poll_ok = 0

\* a poll for this slave with one bit flipped in its function byte was dropped
C13_Witness ==
    /\ OneBitFromValid
    /\ SlaveByteMatches /\ Frame[2] # 3 /\ SubSeq(Frame, 3, 8) = SubSeq(PollFrame, 3, 8)
    /\ ser_out = <<>> /\ poll_badcrc = 1


StartOf(p) == p[3] * 256 + p[4]
CountOf(p) == p[5] * 256 + p[6]

\* p asks for a range inside the register map holding both mirror registers
CoversMirrors(p) ==
    /\ p[2] = 3
    /\ StartOf(p) <= 21 /\ 24 < StartOf(p) + CountOf(p)
    /\ StartOf(p) + CountOf(p) <= 39

\* C14: two answers to the same read request over both mirror registers are
\* 0x03 responses with byte count 2*count (0x22 for the poll of 17
\* registers), each carries the live value of its own iteration at the two
\* mirror offsets, and every other register is the same in both.
C14_OnlyMirrorsDiffer ==
    \A i, j \in 1..Len(sent) :
        (i < j /\ sent[i].req = sent[j].req /\ CoversMirrors(sent[i].req)) =>
            LET p == sent[i].req
                ri == sent[i].resp
                rj == sent[j].resp
            IN  /\ ri[2] = 3 /\ rj[2] = 3
                /\ ri[3] = 2 * CountOf(p) /\ rj[3] = 2 * CountOf(p)
                /\ p = PollFrame => ri[3] = 34
                /\ Len(ri) = 2 * CountOf(p) + 5 /\ Len(rj) = Len(ri)
                /\ \A k \in 1..CountOf(p) :
                      IF StartOf(p) + k - 1 \in {21, 24}
                      THEN /\ Decoded(ri)[k] = sent[i].soc
                           /\ Decoded(rj)[k] = sent[j].soc
                      ELSE Decoded(ri)[k] = Decoded(rj)[k]

\* the documented poll was answered with live value 53 and then, the SOC
\* file rewritten, with 91
C14_Witness ==
    /\ Len(sent) = 2
    /\ sent[1].req = PollFrame /\ sent[2].req = PollFrame
    /\ sent[1].soc = 53 /\ sent[2].soc = 91
    /\ sent[1].resp # sent[2].resp


\* the live value as a response register carries it
AsRegister(s) == s % 65536

\* C15: every iteration reads the live value anew from the source as it
\* stands when the iteration starts, and a read response written in the
\* iteration carries that value at the mirror registers it covers.
C15_LiveValueReadEachIteration ==
    [][soc_file' = soc_file =>
         /\ soc' = load_soc(soc_file, args.default_soc)
         /\ last_soc' = Some(soc')
         /\ (ser_out' # <<>> /\ ser_out'[1][2] = 3) =>
               \A k \in 1..CountOf(pkt'.val) :
                   StartOf(pkt'.val) + k - 1 \in {21, 24} =>
                       Decoded(ser_out'[1])[k] = AsRegister(soc')]_vars

\* the SOC file was rewritten before the first answer and again before the
\* second, and each answer carries the value of its own iteration
C15_Witness ==
    /\ Len(sent) = 2
    /\ sent[1].soc = 91 /\ sent[2].soc = 53
    /\ soc_file.tenths = 530 /\ soc = 53
    /\ CoversMirrors(sent[2].req)
    /\ Decoded(sent[1].resp)[21 - StartOf(sent[1].req) + 1] = 91
    /\ Decoded(sent[2].resp)[21 - StartOf(sent[2].req) + 1] = 53


\* C16 as claimed: an iteration that completes a truncated (shorter than 8
\* bytes) or CRC-mismatched frame writes nothing and adds one to the
\* rejection counter, and no other iteration adds one to it.
C16_Claimed ==
    [][soc_file' = soc_file =>
         IF pkt'.some /\ (Len(pkt'.val) < 8 \/ ~CrcTrailerOf(pkt'.val))
         THEN ser_out' = <<>> /\ poll_badcrc' = poll_badcrc + 1
         ELSE poll_badcrc' # poll_badcrc + 1]_vars

\* C16 amended: a completed frame of at least 8 bytes whose trailer is not
\* the CRC of its body gets no response and adds one to the rejection
\* counter; a completed frame shorter than 8 bytes gets no response and
\* leaves both counters as they were; no other iteration adds to the
\* rejection counter; the loop keeps running.
C16_NoiseDropped ==
    [][soc_file' = soc_file =>
         /\ running'
         /\ (pkt'.some /\ Len(pkt'.val) < 8) =>
               /\ ser_out' = <<>>
               /\ poll_badcrc' = poll_badcrc /\ poll_ok' = poll_ok
         /\ (pkt'.some /\ Len(pkt'.val) >= 8 /\ ~CrcTrailerOf(pkt'.val)) =>
               /\ ser_out' = <<>>
               /\ poll_badcrc' = poll_badcrc + 1 /\ poll_ok' = poll_ok
         /\ ~(pkt'.some /\ Len(pkt'.val) >= 8 /\ ~CrcTrailerOf(pkt'.val)) =>
               poll_badcrc' # poll_badcrc + 1]_vars

\* a second CRC-mismatched frame in a row was dropped and counted
C16_Witness ==
    /\ Completed /\ Len(Frame) >= 8 /\ ~CrcTrailerOf(Frame)
    /\ ser_out = <<>>
    /\ poll_badcrc = 2 /\ poll_ok = 0


\* C17 as claimed: an iteration starting more than 5 s after the last reset
\* ends with both counters at zero, whatever the configuration and whatever
\* was done with its frame.
C17_Claimed ==
    [][(soc_file' = soc_file /\ now' - last_rate_t > 5) =>
           poll_ok' = 0 /\ poll_badcrc' = 0]_vars

\* C17 amended: without --quiet, an iteration that completes no frame or
\* answers a read normally, more than 5 s after the last reset, ends with
\* both counters at zero and the reset time set to the present; every other
\* iteration leaves the reset time alone and resets neither counter.
C17_ResetOnReport ==
    [][soc_file' = soc_file =>
         LET reaches == ~pkt'.some \/ (ser_out' # <<>> /\ ser_out'[1][2] = 3)
             due == ~args.quiet /\ now' - last_rate_t > 5
         IN  /\ (reaches /\ due) =>
                   poll_ok' = 0 /\ poll_badcrc' = 0 /\ last_rate_t' = now'
             /\ ~(reaches /\ due) =>
                   /\ last_rate_t' = last_rate_t
                   /\ poll_ok' >= poll_ok /\ poll_badcrc' >= poll_badcrc]_vars

\* a read answered more than 5 s after the start, without --quiet, reset the
\* counters and the reset time
C17_Witness ==
    /\ ValidRead /\ Len(ser_out) = 1 /\ ser_out[1][2] = 3
    /\ ~args.quiet
    /\ last_rate_t = now /\ now > 5
    /\ poll_ok = 0 /\ poll_badcrc = 0


\* what the buffer can hold
BufferedBytes == UNION {[1..n -> FramerBytes] : n \in 1..MaxFed}

\* C18: with bytes b buffered, the loop going on and time advancing, either
\* feed returns exactly b or more bytes arrive first; a call with bytes
\* returns no frame and appends them to the buffer, so chunks that arrive
\* less than the gap apart, or with no idle call between them, come out as
\* one frame; the frame returned is the buffer as it is, whatever its length
\* or content.
C18_FramerLiveness ==
    /\ [][/\ chunk' # <<>> => (~pkt'.some /\ buf' = buf \o chunk')
          /\ pkt'.some => (pkt'.val = buf /\ buf' = <<>>)]_vars
    /\ \A b \in BufferedBytes :
          (buf = b) ~> ((pkt.some /\ pkt.val = b /\ buf = <<>>)
                          \/ (chunk # <<>> /\ buf # b))

\* two chunks fed more than the gap apart with no idle call between them
\* came out as one frame
C18_Witness ==
    /\ pkt.some /\ Len(pkt.val) = 3
    /\ frames = <<pkt.val>> /\ fed = pkt.val
    /\ gap_s = 2 /\ last_rx.val >= 3 /\ now = last_rx.val + gap_s


\* C19: an iteration writes at most one frame to the serial port, and only
\* when its read returned nothing and feed returned a frame; an iteration
\* that received bytes writes nothing; the responses written so far are
\* never more than the frames feed has returned.
C19_HalfDuplex ==
    /\ Len(ser_out) <= 1
    /\ ser_out # <<>> => (chunk = <<>> /\ pkt.some)
    /\ chunk # <<>> => (ser_out = <<>> /\ ~pkt.some)
    /\ Len(sent) <= Len(frames)
    /\ \A i \in 1..Len(sent) : \E j \in 1..Len(frames) : frames[j] = sent[i].req

\* a response was written for the second frame of the session, the first
\* having been dropped
C19_Witness ==
    /\ Len(frames) = 2 /\ Len(sent) = 1
    /\ sent[1].req = frames[2]
    /\ ser_out = <<sent[1].resp>> /\ chunk = <<>> /\ pkt = Some(frames[2])

====
